---- MODULE Spec2Model ----
(***************************************************************************)
(* State core of the terminal chat client:                                 *)
(*   - FollowingWidget (src/src/ui/components/following.rs): a selectable, *)
(*     fuzzy-filtered list of followed channels;                           *)
(*   - State / Scrolling / App (src/src/handlers/app.rs): the application  *)
(*     mode, the scroll offset and the message history.                    *)
(* Strings are sequences of one-character strings, Option<T> is a sequence *)
(* of length at most one: None is <<>>, Some(x) is <<x>>.                 *)
(***************************************************************************)
EXTENDS Integers, Sequences, FiniteSets, TLC

VARIABLES
    following,            \* FollowingWidget.following.data (broadcaster names)
    filtered_following,   \* FollowingWidget.filtered_following : Option<Vec<String>>
    selected,             \* FollowingWidget.state.selected()   : Option<usize>
    focused,              \* FollowingWidget.focused
    search_input,         \* FollowingWidget.search_input.to_string()
    channel,              \* config.twitch.channel (shared configuration)
    ret,                  \* what the last operation returned (Option<TerminalAction>)
    lastEvent,            \* the last operation that ran
    frame,                \* what the last operation rendered (rows and title), if
                          \* it rendered anything
    panicked,             \* the thread has panicked (the operation aborted)
    overflow_checks,      \* build profile: TRUE = arithmetic overflow panics (debug),
                          \*                FALSE = it wraps (release)
    messages,             \* App.messages
    state,                \* App.state (the mode)
    offset,               \* App.scrolling.offset
    inverted,             \* App.scrolling.inverted
    history               \* the last two operations on the App, oldest first, each
                          \* with the scroll offset it started from

widget_vars == <<following, filtered_following, selected, focused, search_input,
                 channel>>
app_vars == <<messages, state, offset, inverted, history>>
vars == <<following, filtered_following, selected, focused, search_input, channel,
          ret, lastEvent, frame, panicked, overflow_checks,
          messages, state, offset, inverted, history>>

----------------------------------------------------------------------------
(* Bounds of the model *)

\* longest search text typed into the search input
MaxText == 3
\* largest selected index explored (only the wrapped arithmetic of next() on an
\* empty list grows the index without limit)
MaxSelected == 3
\* scroll offsets explored: 0..MaxOffset and UsizeMax - MaxOffset..UsizeMax
MaxOffset == 3
\* capacity of the message history (config.terminal.maximum_messages)
MaxMessages == 2

----------------------------------------------------------------------------
(* Values *)

None == <<>>
Some(x) == <<x>>

\* usize::MAX.  usize is 64 bits wide on the targets of the program; the model
\* keeps the top of the range symbolic in the largest integer TLC represents,
\* and never computes past it.
UsizeMax == 2147483647

Asmongold == <<"A", "s", "m", "o", "n", "g", "o", "l", "d">>
Ludwig == <<"L", "u", "d", "w", "i", "g">>
Pokimane == <<"P", "o", "k", "i", "m", "a", "n", "e">>

\* the lists of followed channels the widget is constructed with
Followings == { <<>>, <<Asmongold, Ludwig, Pokimane>> }

\* the characters the user types into the search input
TypedChars == {"p", "o", "k"}

\* the channel the configuration holds before any commit
ConfiguredChannel == <<"c", "f", "g">>

\* char::to_lowercase on the characters that occur in the model
ToLowerChar(c) ==
    CASE c = "A" -> "a"
      [] c = "L" -> "l"
      [] c = "P" -> "p"
      [] OTHER -> c

\* str::to_lowercase
to_lowercase(s) == [i \in 1..Len(s) |-> ToLowerChar(s[i])]

\* TerminalAction values returned by event()
NoAction == [kind |-> "None", channel |-> <<>>]
BackOneLayer == [kind |-> "BackOneLayer", channel |-> <<>>]
Join(c) == [kind |-> "Join", channel |-> c]

----------------------------------------------------------------------------
(* The fuzzy matcher, as the widget uses it *)

\* SkimMatcherV2::default() matches with smart case: case-sensitively exactly
\* when the pattern holds an upper-case character.
ContainsUpper(pattern) == \E i \in 1..Len(pattern) : ToLowerChar(pattern[i]) # pattern[i]

CharEqual(a, b, case_sensitive) ==
    IF case_sensitive THEN a = b ELSE ToLowerChar(a) = ToLowerChar(b)

\* The positions (0-based) of `choice` at which the characters of `pattern`
\* are found, in order, scanning from position `from` (1-based); <<>> when
\* the pattern is not a subsequence of the choice. The matcher reports a match
\* exactly when the pattern is a subsequence of the choice, with one position
\* per pattern character; which of several possible position sets it reports
\* depends on its scoring, the leftmost one stands for it here.
RECURSIVE MatchFrom(_, _, _, _)
MatchFrom(choice, pattern, from, cs) ==
    IF pattern = <<>> THEN <<>>
    ELSE IF from > Len(choice) THEN <<-1>>
    ELSE IF CharEqual(choice[from], Head(pattern), cs)
         THEN <<from - 1>> \o MatchFrom(choice, Tail(pattern), from + 1, cs)
         ELSE MatchFrom(choice, pattern, from + 1, cs)

\* channel_filter: fuzzy_indices(..).map(|(_, indices)| indices).unwrap_or_default()
channel_filter(c, current_input) ==
    LET m == MatchFrom(c, current_input, 1, ContainsUpper(current_input))
    IN  IF \E i \in 1..Len(m) : m[i] = -1 THEN <<>> ELSE m

\* the `matched` vector draw() builds: the channels with a non-empty match,
\* in backing order
RECURSIVE matched(_, _)
matched(data, current_input) ==
    IF data = <<>> THEN <<>>
    ELSE IF channel_filter(Head(data), current_input) = <<>>
         THEN matched(Tail(data), current_input)
         ELSE <<Head(data)>> \o matched(Tail(data), current_input)

----------------------------------------------------------------------------
(* FollowingWidget *)

\* FollowingWidget::new: unfocused, no filter, row 0 selected whatever the
\* length of the list
WidgetNew(data) ==
    /\ following = data
    /\ filtered_following = None
    /\ selected = Some(0)
    /\ focused = FALSE
    /\ search_input = <<>>
    /\ channel = ConfiguredChannel

\* the sequence the selection is meant to index: the filtered list when a
\* filter is active, the backing list otherwise
Authoritative ==
    IF filtered_following # None THEN filtered_following[1] ELSE following

\* `self.following.data.len() - 1` in next(): usize arithmetic, which wraps to
\* usize::MAX on an empty list when overflow checks are off
LenMinusOne ==
    IF Len(following) = 0 THEN UsizeMax ELSE Len(following) - 1

\* next() aborts on `len() - 1` when the list is empty and overflow checks are
\* on; the subtraction is only evaluated in the Some(i) arm
next_panics ==
    selected # None /\ Len(following) = 0 /\ overflow_checks

\* next() that wraps to the first row past the last one
next_index_wraps ==
    IF selected = None THEN 0
    ELSE IF selected[1] >= LenMinusOne THEN 0
         ELSE selected[1] + 1

\* the index next() selects
next_index ==
    IF selected = None THEN 0
    ELSE IF selected[1] >= LenMinusOne THEN LenMinusOne
         ELSE selected[1] + 1

\* the index previous() selects
previous_index ==
    IF selected = None THEN 0
    ELSE IF selected[1] = 0 THEN 0 ELSE selected[1] - 1

\* toggle_focus
toggle_focus == ~focused

\* draw() that keeps the filtered list when the search text is empty
draw_filtered_keeps ==
    IF search_input = <<>> THEN filtered_following
    ELSE Some(matched(following, search_input))

\* draw() that filters the list of the previous pass instead of the backing list
draw_filtered_incremental ==
    IF search_input = <<>> THEN None
    ELSE Some(matched(Authoritative, search_input))

\* draw(): what filtered_following is after the pass
draw_filtered ==
    IF search_input = <<>> THEN None
    ELSE Some(matched(following, search_input))

\* draw(): the rows handed to the table, each a label with the positions of
\* its emphasized characters (none when no filter is active)
draw_rows ==
    IF search_input = <<>>
    THEN [i \in 1..Len(following) |-> [text |-> following[i], highlight |-> <<>>]]
    ELSE LET m == matched(following, search_input)
         IN  [i \in 1..Len(m) |->
                [text |-> m[i], highlight |-> channel_filter(m[i], search_input)]]

\* draw(): the two numbers of the "{} / {}" title, computed after the filtered
\* list was rebuilt
draw_title ==
    [position |-> IF selected = None THEN 1 ELSE selected[1] + 1,
     total |-> IF draw_filtered # None THEN Len(draw_filtered[1])
               ELSE Len(following)]

\* Key::Enter: the index expression of the selected channel is out of range
\* (Vec::index panics)
enter_panics ==
    /\ selected # None
    /\ IF filtered_following # None
       THEN /\ filtered_following[1] # <<>>
            /\ selected[1] >= Len(filtered_following[1])
       ELSE selected[1] >= Len(following)

\* Key::Enter: the handler returns None without changing anything
enter_noop ==
    \/ selected = None
    \/ /\ filtered_following # None
       /\ filtered_following[1] = <<>>

\* Key::Enter: selected_channel
selected_channel ==
    to_lowercase(IF filtered_following # None
                 THEN filtered_following[1][selected[1] + 1]
                 ELSE following[selected[1] + 1])

\* the fallthrough arm, after the key went to the search input: row 0 is
\* selected when the filtered list (as the last draw left it) is non-empty
fallthrough_selected ==
    IF filtered_following # None /\ filtered_following[1] # <<>>
    THEN Some(0)
    ELSE selected

\* an operation that aborts: nothing is written, the thread unwinds
Panic(ev) ==
    /\ panicked' = TRUE
    /\ lastEvent' = ev
    /\ ret' = NoAction
    /\ frame' = None
    /\ UNCHANGED <<widget_vars, overflow_checks, app_vars>>

\* Escape that leaves in one stage: it unselects and goes back at once
KeyEsc_OneStage ==
    /\ ~panicked
    /\ lastEvent' = "Esc"
    /\ selected' = None
    /\ focused' = toggle_focus
    /\ ret' = BackOneLayer
    /\ frame' = None
    /\ UNCHANGED <<following, filtered_following, search_input, channel,
                   panicked, overflow_checks, app_vars>>

\* Escape that also resets the configured channel when it goes back
KeyEsc_ClearsChannel ==
    /\ ~panicked
    /\ lastEvent' = "Esc"
    /\ IF selected # None
       THEN /\ selected' = None
            /\ ret' = NoAction
            /\ UNCHANGED <<focused, channel>>
       ELSE /\ focused' = toggle_focus
            /\ ret' = BackOneLayer
            /\ channel' = <<>>
            /\ UNCHANGED selected
    /\ frame' = None
    /\ UNCHANGED <<following, filtered_following, search_input,
                   panicked, overflow_checks, app_vars>>

\* event(Key::Esc)
KeyEsc ==
    /\ ~panicked
    /\ lastEvent' = "Esc"
    /\ IF selected # None
       THEN /\ selected' = None
            /\ ret' = NoAction
            /\ frame' = None
            /\ UNCHANGED focused
       ELSE /\ focused' = toggle_focus
            /\ ret' = BackOneLayer
            /\ frame' = None
            /\ UNCHANGED selected
    /\ UNCHANGED <<following, filtered_following, search_input, channel,
                   panicked, overflow_checks, app_vars>>

\* event(Key::Ctrl('p'))
KeyCtrlP ==
    /\ ~panicked
    /\ Panic("CtrlP")

\* event(Key::ScrollDown)
KeyScrollDown ==
    /\ ~panicked
    /\ IF next_panics
       THEN Panic("ScrollDown")
       ELSE /\ next_index <= MaxSelected
            /\ selected' = Some(next_index)
            /\ lastEvent' = "ScrollDown"
            /\ ret' = NoAction
            /\ frame' = None
            /\ UNCHANGED <<following, filtered_following, focused, search_input,
                           channel, panicked, overflow_checks, app_vars>>

\* event(Key::ScrollUp)
KeyScrollUp ==
    /\ ~panicked
    /\ selected' = Some(previous_index)
    /\ lastEvent' = "ScrollUp"
    /\ ret' = NoAction
    /\ frame' = None
    /\ UNCHANGED <<following, filtered_following, focused, search_input,
                   channel, panicked, overflow_checks, app_vars>>

\* Enter that drops the selection when it has nothing to commit
KeyEnter_UnselectsOnNoop ==
    /\ ~panicked
    /\ IF enter_noop
       THEN /\ lastEvent' = "Enter"
            /\ ret' = NoAction
            /\ frame' = None
            /\ selected' = None
            /\ UNCHANGED <<following, filtered_following, focused, search_input,
                           channel, panicked, overflow_checks, app_vars>>
       ELSE IF enter_panics
       THEN Panic("Enter")
       ELSE /\ lastEvent' = "Enter"
            /\ focused' = toggle_focus
            /\ selected' = None
            /\ channel' = selected_channel
            /\ ret' = Join(selected_channel)
            /\ frame' = None
            /\ UNCHANGED <<following, filtered_following, search_input,
                           panicked, overflow_checks, app_vars>>

\* event(Key::Enter)
KeyEnter ==
    /\ ~panicked
    /\ IF enter_noop
       THEN /\ lastEvent' = "Enter"
            /\ ret' = NoAction
            /\ frame' = None
            /\ UNCHANGED <<widget_vars, panicked, overflow_checks, app_vars>>
       ELSE IF enter_panics
       THEN Panic("Enter")
       ELSE /\ lastEvent' = "Enter"
            /\ focused' = toggle_focus
            /\ selected' = None
            /\ channel' = selected_channel
            /\ ret' = Join(selected_channel)
            /\ frame' = None
            /\ UNCHANGED <<following, filtered_following, search_input,
                           panicked, overflow_checks, app_vars>>

\* the search input's buffer after a key: a character is inserted at the
\* cursor (kept at the end), Backspace removes the character before it, any
\* other key leaves the text alone
InputEvent(text, key) ==
    CASE key.kind = "Char" -> Append(text, key.c)
      [] key.kind = "Backspace" ->
            IF text = <<>> THEN text ELSE SubSeq(text, 1, Len(text) - 1)
      [] OTHER -> text

\* the keys that reach the fallthrough arm
TextKeys ==
    [kind : {"Char"}, c : TypedChars]
        \cup {[kind |-> "Backspace", c |-> ""], [kind |-> "Tab", c |-> ""]}

\* event(any other key)
KeyOther ==
    /\ ~panicked
    /\ \E key \in TextKeys :
        /\ Len(InputEvent(search_input, key)) <= MaxText
        /\ search_input' = InputEvent(search_input, key)
        /\ lastEvent' = key.kind
    /\ selected' = fallthrough_selected
    /\ ret' = NoAction
    /\ frame' = None
    /\ UNCHANGED <<following, filtered_following, focused, channel,
                   panicked, overflow_checks, app_vars>>

\* event(an event that is not Event::Input)
EventTick ==
    /\ ~panicked
    /\ lastEvent' = "Tick"
    /\ ret' = NoAction
    /\ frame' = None
    /\ UNCHANGED <<widget_vars, panicked, overflow_checks, app_vars>>

\* toggle_focus(), called by the owner of the widget
ToggleFocus ==
    /\ ~panicked
    /\ focused' = toggle_focus
    /\ lastEvent' = "toggle_focus"
    /\ ret' = NoAction
    /\ frame' = None
    /\ UNCHANGED <<following, filtered_following, selected, search_input,
                   channel, panicked, overflow_checks, app_vars>>

\* draw(): the filtered list is rebuilt from the backing list and the search
\* text; rendering the table reads the selection and leaves it as it is
Draw ==
    /\ ~panicked
    /\ filtered_following' = draw_filtered
    /\ lastEvent' = "draw"
    /\ ret' = NoAction
    /\ frame' = Some([rows |-> draw_rows, title |-> draw_title])
    /\ UNCHANGED <<following, selected, focused, search_input, channel,
                   panicked, overflow_checks, app_vars>>

----------------------------------------------------------------------------
(* State, Scrolling, App *)

States == {"Normal", "Insert", "Help", "ChannelSwitch", "MessageSearch"}

\* in_insert_mode() that forgets the channel switcher
in_insert_mode_narrow(st) == st \in {"Insert", "MessageSearch"}

\* State::in_insert_mode
in_insert_mode(st) == st \in {"Insert", "ChannelSwitch", "MessageSearch"}

\* State::to_string
to_string(st) ==
    CASE st = "Normal" -> "Normal"
      [] st = "Insert" -> "Insert"
      [] st = "Help" -> "Help"
      [] st = "ChannelSwitch" -> "Channel"
      [] st = "MessageSearch" -> "Search"

\* State::category
category(st) ==
    IF in_insert_mode(st) THEN "Insert modes" ELSE to_string(st)

\* App::new and Scrolling::new
AppNew(start_state, inverted_scrolling) ==
    /\ messages = <<>>
    /\ state = start_state
    /\ offset = 0
    /\ inverted = inverted_scrolling
    /\ history = <<>>

\* the offsets the model keeps: the bottom and the top of the usize range
InWindow(o) == o <= MaxOffset \/ o >= UsizeMax - MaxOffset

\* `offset += 1` overflows
add_overflows(o) == o = UsizeMax

\* `offset += 1` with overflow checks off (wrapping)
wrapping_add_one(o) == IF o = UsizeMax THEN 0 ELSE o + 1

\* Scrolling::up aborts (overflow checks on, `offset += 1` at usize::MAX)
up_panics(o, inv) == o > 0 /\ ~inv /\ add_overflows(o) /\ overflow_checks

\* up() without the guard at 0
up_unguarded(o, inv) ==
    IF inv THEN o - 1 ELSE wrapping_add_one(o)

\* up() that increments whatever the inversion
up_ignores_inverted(o, inv) ==
    IF o > 0 THEN wrapping_add_one(o) ELSE o

\* Scrolling::up: the offset afterwards
up(o, inv) ==
    IF o > 0
    THEN IF inv THEN o - 1 ELSE wrapping_add_one(o)
    ELSE o

\* Scrolling::down aborts
down_panics(o, inv) == o > 0 /\ inv /\ add_overflows(o) /\ overflow_checks

\* down() that decrements whatever the inversion
down_ignores_inverted(o, inv) ==
    IF o > 0 THEN o - 1 ELSE o

\* Scrolling::down: the offset afterwards
down(o, inv) ==
    IF o > 0
    THEN IF inv THEN wrapping_add_one(o) ELSE o - 1
    ELSE o

\* Scrolling::jump_to: the offset afterwards
jump_to(index) == index

\* Scrolling::get_offset
get_offset == offset

\* clear_messages() that forgets to reset the scroll offset
clear_messages_offset_kept == offset

\* App::clear_messages: the offset afterwards, self.scrolling.jump_to(0)
clear_messages_offset == jump_to(0)

\* App::clear_messages: the history afterwards, self.messages.clear()
clear_messages_history == <<>>

\* the record of an operation in `history`
Record(op) ==
    LET h == Append(history, [op |-> op, before |-> offset])
    IN  IF Len(h) > 2 THEN Tail(h) ELSE h

\* an App operation that aborts
AppPanic(op) ==
    /\ panicked' = TRUE
    /\ lastEvent' = op
    /\ history' = Record(op)
    /\ UNCHANGED <<widget_vars, frame, ret, overflow_checks, messages, state, offset,
                   inverted>>

ScrollingUp ==
    /\ ~panicked
    /\ IF up_panics(offset, inverted)
       THEN AppPanic("up")
       ELSE /\ InWindow(up(offset, inverted))
            /\ offset' = up(offset, inverted)
            /\ lastEvent' = "up"
            /\ history' = Record("up")
            /\ UNCHANGED <<widget_vars, frame, ret, panicked, overflow_checks, messages,
                           state, inverted>>

ScrollingDown ==
    /\ ~panicked
    /\ IF down_panics(offset, inverted)
       THEN AppPanic("down")
       ELSE /\ InWindow(down(offset, inverted))
            /\ offset' = down(offset, inverted)
            /\ lastEvent' = "down"
            /\ history' = Record("down")
            /\ UNCHANGED <<widget_vars, frame, ret, panicked, overflow_checks, messages,
                           state, inverted>>

ScrollingJumpTo ==
    /\ ~panicked
    /\ \E index \in (0..MaxOffset) \cup {UsizeMax} :
        offset' = jump_to(index)
    /\ lastEvent' = "jump_to"
    /\ history' = Record("jump_to")
    /\ UNCHANGED <<widget_vars, frame, ret, panicked, overflow_checks, messages, state,
                   inverted>>

\* clear_messages() that also falls back to the Normal mode
ClearMessages_ResetsState ==
    /\ ~panicked
    /\ messages' = clear_messages_history
    /\ offset' = clear_messages_offset
    /\ state' = "Normal"
    /\ lastEvent' = "clear_messages"
    /\ history' = Record("clear_messages")
    /\ UNCHANGED <<widget_vars, frame, ret, panicked, overflow_checks, inverted>>

ClearMessages ==
    /\ ~panicked
    /\ messages' = clear_messages_history
    /\ offset' = clear_messages_offset
    /\ lastEvent' = "clear_messages"
    /\ history' = Record("clear_messages")
    /\ UNCHANGED <<widget_vars, frame, ret, panicked, overflow_checks, state, inverted>>

\* a message is recorded in the history; the oldest one is evicted at capacity
PushMessage ==
    /\ ~panicked
    /\ messages' = IF Len(messages) >= MaxMessages
                   THEN Append(Tail(messages), "msg")
                   ELSE Append(messages, "msg")
    /\ lastEvent' = "push_message"
    /\ history' = Record("push_message")
    /\ UNCHANGED <<widget_vars, frame, ret, panicked, overflow_checks, state, offset,
                   inverted>>

\* the event-routing layer overwrites the mode
SetState ==
    /\ ~panicked
    /\ \E st \in States : state' = st
    /\ lastEvent' = "set_state"
    /\ history' = Record("set_state")
    /\ UNCHANGED <<widget_vars, frame, ret, panicked, overflow_checks, messages, offset,
                   inverted>>

----------------------------------------------------------------------------
(* Specifications *)

\* the widget, with the application state left as constructed
Init ==
    /\ \E data \in Followings : WidgetNew(data)
    /\ ret = NoAction
    /\ lastEvent = "new"
    /\ frame = None
    /\ panicked = FALSE
    /\ overflow_checks \in BOOLEAN
    /\ AppNew("Normal", FALSE)

Next ==
    \/ KeyEsc
    \/ KeyCtrlP
    \/ KeyScrollDown
    \/ KeyScrollUp
    \/ KeyEnter
    \/ KeyOther
    \/ EventTick
    \/ ToggleFocus
    \/ Draw

Spec == Init /\ [][Next]_vars

\* the application state, with the widget left as constructed
InitApp ==
    /\ WidgetNew(<<>>)
    /\ ret = NoAction
    /\ lastEvent = "new"
    /\ frame = None
    /\ panicked = FALSE
    /\ overflow_checks \in BOOLEAN
    /\ \E st \in States, inv \in BOOLEAN : AppNew(st, inv)

NextApp ==
    \/ ScrollingUp
    \/ ScrollingDown
    \/ ScrollingJumpTo
    \/ ClearMessages
    \/ PushMessage
    \/ SetState

SpecApp == InitApp /\ [][NextApp]_vars

----------------------------------------------------------------------------
(* Properties *)

Min(a, b) == IF a <= b THEN a ELSE b
Max(a, b) == IF a >= b THEN a ELSE b

\* the keys the fallthrough arm forwards to the search input
ForwardedKeys == {"Char", "Backspace", "Tab"}

\* the items of the backing list that match the search text as it is now
Visible == matched(following, search_input)

\* C1: with a non-empty backing list, the selected index, when present, is
\* strictly smaller than the length of the authoritative sequence (the
\* filtered list when a filter is active, the backing list otherwise), in
\* every reachable state.
C1_SelectedInRange ==
    (Len(following) > 0 /\ selected # None)
        => selected[1] < Len(Authoritative)

\* C2: when Enter is handled while the search text is non-empty, resolving the
\* selected item never indexes out of range, and a committed value (Join) is
\* the lower-cased label of a backing item that matches the current search
\* text. (Stated for a non-empty backing list; the empty one is C4's case.)
C2_CommitFromVisible ==
    (lastEvent = "Enter" /\ search_input # <<>> /\ Len(following) > 0)
        => /\ ~panicked
           /\ ret.kind = "Join"
                => \E j \in 1..Len(Visible) : ret.channel = to_lowercase(Visible[j])

\* C3: on an unfiltered list of length n > 0, next() selects 0 from None and
\* min(i + 1, n - 1) from i, previous() selects 0 from None and max(i - 1, 0)
\* from i; neither unselects, and the selection is below n after every call.
C3_NextPreviousSaturate ==
    [][(Len(following) > 0 /\ filtered_following = None)
        => /\ lastEvent' = "ScrollDown"
                => selected' = Some(IF selected = None THEN 0
                                    ELSE Min(selected[1] + 1, Len(following) - 1))
           /\ lastEvent' = "ScrollUp"
                => selected' = Some(IF selected = None THEN 0
                                    ELSE Max(selected[1] - 1, 0))
           /\ lastEvent' \in {"ScrollDown", "ScrollUp"}
                => /\ ~panicked'
                   /\ selected' # None
                   /\ selected'[1] >= 0
                   /\ selected'[1] < Len(following)]_vars

\* C3 witness: next() has run on the unfiltered three-item list and the
\* selection rests on its last row
C3_Witness ==
    /\ lastEvent = "ScrollDown"
    /\ filtered_following = None
    /\ Len(following) = 3
    /\ selected = Some(2)

\* C4: with an empty backing list, after any key event (Escape, ScrollDown,
\* ScrollUp, Enter, a text key) the handler has not aborted and the selection
\* is None.
C4_EmptyListTotal ==
    (Len(following) = 0
        /\ lastEvent \in {"Esc", "ScrollDown", "ScrollUp", "Enter"} \cup ForwardedKeys)
        => (~panicked /\ selected = None)

\* the case of C5: the last two operations were up() then down(), neither
\* aborted
UpThenDown ==
    /\ Len(history) = 2
    /\ history[1].op = "up"
    /\ history[2].op = "down"
    /\ ~panicked

\* C5 (as amended): for every starting offset k with 0 < k < usize::MAX when
\* inverted = false, and every k > 1 when inverted = true, up() followed
\* immediately by down() leaves the offset equal to k.
C5_UpThenDownRestores ==
    (UpThenDown
        /\ IF inverted THEN history[1].before > 1
           ELSE history[1].before > 0 /\ history[1].before < UsizeMax)
        => get_offset = history[1].before

\* C5 witness: an inverted up() then down() from an offset above 1 is back
\* where it started
C5_Witness ==
    /\ UpThenDown
    /\ inverted
    /\ history[1].before > 1
    /\ offset = history[1].before

\* C5 (as stated): for every starting offset k > 0 and both inversion
\* settings, up() followed immediately by down() leaves the offset equal to k.
\* (Stated below usize::MAX, where `offset += 1` does not overflow, so that
\* what refutes it is the guard at 0 and not the width of the integer.)
C5_UpThenDownRestoresAll ==
    (UpThenDown /\ history[1].before > 0 /\ history[1].before < UsizeMax)
        => get_offset = history[1].before

\* C6: after clear_messages(), from any reachable state, the message history
\* is empty and get_offset() is 0.
C6_ClearResets ==
    lastEvent = "clear_messages"
        => (messages = <<>> /\ get_offset = 0)

\* C6 witness: clear_messages() has run right after a message was pushed, from
\* a non-zero offset
C6_Witness ==
    /\ lastEvent = "clear_messages"
    /\ Len(history) = 2
    /\ history[1].op = "push_message"
    /\ history[2].op = "clear_messages"
    /\ history[2].before > 0

\* C7: after a key was forwarded to the search input, if the set of backing
\* items that match the search text as it is after the key is non-empty, then
\* index 0 is selected when the handler returns.
C7_ForceSelectFirst ==
    (lastEvent \in ForwardedKeys /\ search_input # <<>> /\ Visible # <<>>)
        => selected = Some(0)

\* C8: Escape is two-staged. With a selection it only clears the selection
\* (focus, search text and filtered list unchanged, no action); with no
\* selection it returns BackOneLayer and the selection stays None. So
\* BackOneLayer is only emitted from a state with no selection.
C8_EscapeTwoStaged ==
    [][lastEvent' = "Esc"
        => IF selected # None
           THEN /\ selected' = None
                /\ ret' = NoAction
                /\ UNCHANGED <<focused, search_input, filtered_following>>
           ELSE /\ ret' = BackOneLayer
                /\ selected' = None]_vars

\* C8 witness: Escape has returned BackOneLayer
C8_Witness ==
    /\ lastEvent = "Esc"
    /\ ret = BackOneLayer
    /\ selected = None

\* C9: when Enter is handled with a selection i and a non-empty authoritative
\* list, the handler returns Join(v) with v the lower-cased label of element i
\* of the authoritative list, the configuration's channel is v, and the
\* selection is None afterwards.
C9_EnterCommits ==
    [][(lastEvent' = "Enter" /\ selected # None /\ Authoritative # <<>>)
        => /\ ~panicked'
           /\ selected[1] < Len(Authoritative)
           /\ ret' = Join(to_lowercase(Authoritative[selected[1] + 1]))
           /\ channel' = to_lowercase(Authoritative[selected[1] + 1])
           /\ selected' = None]_vars

\* C10: whenever the handler has returned BackOneLayer or a commit action,
\* the widget is not focused.
C10_ExitsFocus ==
    ret.kind \in {"BackOneLayer", "Join"} => ~focused

\* C11: in_insert_mode() is true exactly when the mode is Insert,
\* ChannelSwitch or MessageSearch; category() is "Insert modes" exactly for
\* those three and the mode's display name ("Normal", "Help") for the others.
C11_InsertModes ==
    LET ins == state \in {"Insert", "ChannelSwitch", "MessageSearch"}
    IN  /\ in_insert_mode(state) = ins
        /\ category(state) = "Insert modes" <=> ins
        /\ state = "Normal" => category(state) = "Normal"
        /\ state = "Help" => category(state) = "Help"

\* C11 witness: the mode was set to ChannelSwitch and its category is
\* "Insert modes"
C11_Witness ==
    /\ lastEvent = "set_state"
    /\ state = "ChannelSwitch"
    /\ in_insert_mode(state)
    /\ category(state) = "Insert modes"

\* the rows of an unfiltered pass: every backing item, in order, no emphasis
BackingRows ==
    [i \in 1..Len(following) |-> [text |-> following[i], highlight |-> <<>>]]

\* C12: after a draw pass with an empty search text, the filtered list is
\* None and the rows are exactly the backing items in their original order.
C12_EmptyQueryShowsAll ==
    (lastEvent = "draw" /\ search_input = <<>>)
        => /\ filtered_following = None
           /\ frame # None
           /\ frame[1].rows = BackingRows

\* C12 witness: an unfiltered pass over the three-item list
C12_Witness ==
    /\ lastEvent = "draw"
    /\ search_input = <<>>
    /\ Len(following) = 3
    /\ frame # None
    /\ Len(frame[1].rows) = 3

\* the matcher finds the query in the label
Matches(c) == channel_filter(c, search_input) # <<>>

\* C13: after a draw pass with a non-empty search text q, the filtered list is
\* exactly the subsequence of the backing list whose items the matcher finds q
\* in, in backing order; it depends on q and the backing list alone, so a
\* second pass with the same q yields the same list.
C13_FilterIsSubsequence ==
    (lastEvent = "draw" /\ search_input # <<>>)
        => /\ filtered_following = Some(SelectSeq(following, Matches))
           /\ draw_filtered = filtered_following

\* C13 witness: a pass with a query that keeps two of the three items
C13_Witness ==
    /\ lastEvent = "draw"
    /\ search_input = <<"o">>
    /\ filtered_following = Some(<<Asmongold, Pokimane>>)

\* C14: offset 0 is absorbing for up() and down() under both inversion
\* settings, the offset is only decremented from above 0, and it never goes
\* below 0.
C14_ZeroAbsorbing ==
    [][/\ (offset = 0 /\ lastEvent' \in {"up", "down"}) => offset' = 0
       /\ (offset' < offset /\ lastEvent' \in {"up", "down"}) => offset > 0
       /\ offset' >= 0]_vars

\* C14 witness: up() or down() has run at offset 0 and left it at 0
C14_Witness ==
    /\ lastEvent \in {"up", "down"}
    /\ history[Len(history)].before = 0
    /\ offset = 0
    /\ ~panicked

\* C15: Enter is a no-op when there is no selection, and when a filter is
\* active and the filtered list is empty: the handler returns no action and
\* leaves focus, selection, filtered list, search text and the configured
\* channel unchanged.
C15_EnterNoop ==
    [][(lastEvent' = "Enter"
            /\ \/ selected = None
               \/ filtered_following = Some(<<>>))
        => /\ ret' = NoAction
           /\ ~panicked'
           /\ UNCHANGED <<focused, selected, filtered_following, search_input,
                          channel>>]_vars

\* C15 witness: Enter has run with row 0 selected on an empty filtered list
C15_Witness ==
    /\ lastEvent = "Enter"
    /\ ret = NoAction
    /\ selected = Some(0)
    /\ filtered_following = Some(<<>>)
    /\ ~panicked

\* C16: every key other than Escape, ScrollDown, ScrollUp and Enter is
\* forwarded to the search input; the handler returns normally with no
\* action and focus is unchanged.
C16_OtherKeysForwarded ==
    [][lastEvent' \in ForwardedKeys \cup {"CtrlP"}
        => /\ ~panicked'
           /\ ret' = NoAction
           /\ focused' = focused]_vars

\* C17: the configured channel is written only by the commit step of Enter:
\* every step that changes it is an Enter that returns Join with that value.
C17_ChannelWrittenOnCommit ==
    [][channel' # channel
        => /\ lastEvent' = "Enter"
           /\ ret' = Join(channel')]_vars

\* C17 witness: Enter has committed a channel
C17_Witness ==
    /\ lastEvent = "Enter"
    /\ ret.kind = "Join"
    /\ channel = ret.channel
    /\ channel # ConfiguredChannel

\* C18: up(), down(), jump_to() and clear_messages() leave the mode unchanged,
\* no operation changes the inversion flag, and the mode is always one of the
\* five values.
C18_ModeAndInversionFrame ==
    [][/\ lastEvent' \in {"up", "down", "jump_to", "clear_messages"}
            => state' = state
       /\ inverted' = inverted
       /\ state' \in States]_vars

\* C18 witness: clear_messages() has run from a non-zero offset, in the Help
\* mode and with inversion on, and both are as they were
C18_Witness ==
    /\ lastEvent = "clear_messages"
    /\ history[Len(history)].before > 0
    /\ state = "Help"
    /\ inverted

\* C19: inversion swaps the two directions: the step up() takes with one
\* inversion setting is the step down() takes with the other, and the other
\* way round, aborts included.
C19_InversionSwaps ==
    [][/\ lastEvent' = "up"
            => /\ panicked' <=> down_panics(offset, ~inverted)
               /\ ~panicked' => offset' = down(offset, ~inverted)
       /\ lastEvent' = "down"
            => /\ panicked' <=> up_panics(offset, ~inverted)
               /\ ~panicked' => offset' = up(offset, ~inverted)]_vars

\* C19 witness: an inverted up() has moved the offset down by one
C19_Witness ==
    /\ lastEvent = "up"
    /\ inverted
    /\ history[Len(history)].before = offset + 1
    /\ ~panicked

\* C20: in the title of every draw pass, total is the length of the
\* authoritative list, position is selected + 1 (1 when nothing is selected),
\* and position never exceeds total. (Stated for a non-empty backing list;
\* the empty one is C4's case.)
C20_TitlePositionWithinTotal ==
    (lastEvent = "draw" /\ Len(following) > 0)
        => /\ frame # None
           /\ frame[1].title.total = Len(Authoritative)
           /\ frame[1].title.position =
                 (IF selected = None THEN 1 ELSE selected[1] + 1)
           /\ frame[1].title.position <= frame[1].title.total

====
